---- MODULE Spec2Model ----
(***************************************************************************)
(* RacingCar (src/environment/racing_car.py): the caller's thread runs     *)
(* reset / step / close, and the GPIO callback thread runs                 *)
(* _interrupt_handle.  The two threads share self._car_info and nothing    *)
(* in the source synchronises them, so the caller's statements and the     *)
(* handler's statements interleave freely.  Handler invocations are        *)
(* delivered one after the other (one callback at a time, in arrival       *)
(* order), so two invocations never overlap each other.                    *)
(*                                                                         *)
(* Numbers.  Signals (action components, motor_limitation, 'Steering       *)
(* signal', 'Motor signal') are held in hundredths: 100 stands for 1.0.    *)
(* Pulse widths are microseconds.  'Car speed' is held as the numerator of *)
(* a fraction of pi whose denominator is SpeedDen.  Python 3 division is   *)
(* assumed (/ is true division).                                           *)
(***************************************************************************)
EXTENDS Integers, Sequences, FiniteSets

\* ------------------------------------------------------------------ bounds
MaxEvents == 3   \* handler invocations delivered in one behaviour
MaxCalls == 2    \* reset / step calls made in one behaviour

\* ------------------------------------------------------- program constants
STEERING_SERVO_PIN == 4
LEFT_LINE_SENSOR_PIN == 1
RIGHT_LINE_SENSOR_PIN == 2
ENCODER_PUL_PIN == 12
ENCODER_ZERO_PIN == 13
TIRE_DIAMETER_E2 == 5          \* 0.05, in hundredths
GEAR_RATIO_NUM == 145
GEAR_RATIO_DEN == 35
ENCODER_LINE == 512
SERVO_RANGE == 200
MOTOR_RANGE == 500
SPEED_UPDATE_INTERVAL == 500

\* pigpio's level values, kept symbolic: the handler only compares with them.
RISING_EDGE == "RISING_EDGE"
TIMEOUT == "TIMEOUT"
OTHER_LEVEL == "OTHER_LEVEL"

\* The (gpio, level) pairs a handler invocation is delivered with.  Pin 4 has
\* no role in the handler: it stands for an unexpected channel.
GPIOS == {LEFT_LINE_SENSOR_PIN, RIGHT_LINE_SENSOR_PIN, ENCODER_PUL_PIN,
          ENCODER_ZERO_PIN, STEERING_SERVO_PIN}
LEVELS == {RISING_EDGE, TIMEOUT, OTHER_LEVEL}

\* motor_limitation values accepted by the constructor's assert (<= 1), in
\* hundredths: the default 0.6 and a negative one.
MotorLimitations == {60, -200}

\* Arguments of step: numeric arrays, components in hundredths.
Actions == { <<50>>, <<150, 0>>, <<-150, 0>>, <<100, 100>>, <<0, 0>> }

VARIABLES
    car_info,             \* self._car_info: the dict the attribute refers to
    encoder_pulse_count,  \* self._encoder_pulse_count
    motor_limitation,     \* self._motor_limitation
    steering_pw,          \* last pulse width set on _STEERING_SERVO_PIN
    motor_pw,             \* last pulse width set on _MOTOR_PIN
    cam_open,             \* self._cam not yet closed
    pi_open,              \* self._pi not yet stopped
    c_pc,                 \* caller thread: the statement it is about to run
    action,               \* step's argument
    steering_signal,      \* step's local
    motor_signal,         \* step's local
    ret_reward,           \* return expression, 2nd element once evaluated
    ret_done,             \* return expression, 3rd element once evaluated
    ret,                  \* what the last finished call gave its caller
    h_pc,                 \* callback thread: the statement it is about to run
    h_event,              \* <<gpio, level>> of the invocation in progress
    done_read,            \* step's line 136: the value 'Done' was read as
    entry_done,           \* history: 'Done' when the running call began
    events,               \* history: handler invocations delivered
    calls,                \* history: reset / step calls made
    lap_rises,            \* history: line 174 executions on the current dict
    lap_timeouts,         \* history: line 177 executions on the current dict
    enc_delivered,        \* history: line 164 executions
    enc_consumed          \* history: pulses used by line 167-169 computations

shared == <<car_info, encoder_pulse_count>>
hardware == <<steering_pw, motor_pw, cam_open, pi_open>>
caller == <<c_pc, action, steering_signal, motor_signal, ret_reward, ret_done,
            ret, entry_done, calls, done_read>>
handler == <<h_pc, h_event, events>>
history == <<lap_rises, lap_timeouts, enc_delivered, enc_consumed>>
vars == <<car_info, encoder_pulse_count, motor_limitation, steering_pw,
          motor_pw, cam_open, pi_open, c_pc, action, steering_signal,
          motor_signal, ret_reward, ret_done, ret, h_pc, h_event, done_read,
          entry_done, events, calls, lap_rises, lap_timeouts, enc_delivered,
          enc_consumed>>

\* ------------------------------------------------------------ pure helpers

\* scale_range: ((v - old_min) / (old_max - old_min)) * (new_max - new_min)
\* + new_min.  The product is taken before the quotient so that the integer
\* arithmetic is exact for the values used.
scale_rangeFromZero(old_value, old_min, old_max, new_min, new_max) ==
    (old_value * (new_max - new_min)) \div (old_max - old_min) + new_min
scale_range(old_value, old_min, old_max, new_min, new_max) ==
    ((old_value - old_min) * (new_max - new_min)) \div (old_max - old_min)
        + new_min

\* _update_pwm, first pulse width (signal in hundredths, so -1..1 is -100..100)
ServoPulse(signal) ==
    scale_range(signal, -100, 100, 1500 - SERVO_RANGE, 1500 + SERVO_RANGE)

\* _update_pwm, second pulse width
MotorPulse(signal) ==
    scale_range(signal, -100, 100, 1500 - MOTOR_RANGE, 1500 + MOTOR_RANGE)

\* The dict literal of __init__ (lines 81-86) and reset (lines 107-112)
ZeroInfo == [steering |-> 0, motor |-> 0, reward |-> 0, speed |-> 0,
             done |-> FALSE]

\* action.max()
RECURSIVE SeqMax(_)
SeqMax(s) ==
    IF Len(s) = 1 THEN s[1]
    ELSE LET m == SeqMax(Tail(s)) IN IF s[1] >= m THEN s[1] ELSE m

\* The two asserts of step
AssertsPass(a) == Len(a) = 2 /\ SeqMax(a) <= 100

\* if self._car_info['Done']: 0, 0  else: steering_signal, motor_signal = action
EffectiveCommandIgnoringDone(done, a) == <<a[1], a[2]>>
EffectiveCommand(done, a) == IF done THEN <<0, 0>> ELSE <<a[1], a[2]>>

\* motor_signal *= self._motor_limitation
Unattenuated(signal, limitation) == signal
Attenuate(signal, limitation) == (signal * limitation) \div 100

\* s / t * GEAR_RATIO with s = count / ENCODER_LINE * pi * TIRE_DIAMETER and
\* t = SPEED_UPDATE_INTERVAL / 1000, as the numerator over SpeedDen (times pi)
SpeedDen == ENCODER_LINE * 100 * SPEED_UPDATE_INTERVAL * GEAR_RATIO_DEN
SpeedOf(count) == count * TIRE_DIAMETER_E2 * 1000 * GEAR_RATIO_NUM

\* The branch of _interrupt_handle an invocation takes, as the first statement
\* it runs ("idle": no branch matches and the invocation returns at once).
Classify(gpio, level) ==
    IF gpio = LEFT_LINE_SENSOR_PIN \/ gpio = RIGHT_LINE_SENSOR_PIN THEN "h160"
    ELSE IF gpio = ENCODER_PUL_PIN THEN
        IF level = RISING_EDGE THEN "h164"
        ELSE IF level = TIMEOUT THEN "h167" ELSE "idle"
    ELSE IF gpio = ENCODER_ZERO_PIN THEN
        IF level = RISING_EDGE THEN "h174"
        ELSE IF level = TIMEOUT THEN "h177" ELSE "idle"
    ELSE "idle"

\* A call's locals are gone once it has returned or raised; nothing has been
\* returned while a call runs.
NoAction == <<0, 0>>
NoEvent == <<>>
NoReturn == [kind |-> "none", reward |-> 0, done |-> FALSE, info |-> ZeroInfo,
             entry_done |-> FALSE]

\* ------------------------------------------------------------------- Init
\* The state __init__ leaves: _update_pwm(0, 0), the zero dict, count 0.
Init ==
    /\ car_info = ZeroInfo
    /\ encoder_pulse_count = 0
    /\ motor_limitation \in MotorLimitations
    /\ steering_pw = ServoPulse(0)
    /\ motor_pw = MotorPulse(0)
    /\ cam_open = TRUE
    /\ pi_open = TRUE
    /\ c_pc = "idle"
    /\ action = NoAction
    /\ steering_signal = 0
    /\ motor_signal = 0
    /\ ret_reward = 0
    /\ ret_done = FALSE
    /\ ret = NoReturn
    /\ h_pc = "idle"
    /\ h_event = NoEvent
    /\ done_read = FALSE
    /\ entry_done = FALSE
    /\ events = 0
    /\ calls = 0
    /\ lap_rises = 0
    /\ lap_timeouts = 0
    /\ enc_delivered = 0
    /\ enc_consumed = 0

\* -------------------------------------------------- caller thread: step
\* Statements that touch nothing the handler reads or writes are taken
\* together with their neighbours: the asserts with the call, lines 143-148
\* as one step.

\* step(action) is called and lines 133-134 run: a failed assert raises
\* AssertionError out of step.
StepCall ==
    /\ c_pc = "idle"
    /\ calls < MaxCalls
    /\ calls' = calls + 1
    /\ entry_done' = car_info.done
    /\ \E a \in Actions :
         IF AssertsPass(a)
         THEN c_pc' = "s136" /\ action' = a /\ ret' = NoReturn
         ELSE c_pc' = "idle" /\ action' = NoAction
                /\ ret' = [NoReturn EXCEPT !.kind = "AssertionError"]
    /\ done_read' = done_read
    /\ UNCHANGED <<shared, motor_limitation, hardware, steering_signal,
                   motor_signal, ret_reward, ret_done, handler, history>>

\* lines 136-141: one read of 'Done' chooses the command; the throttle is
\* attenuated.
StepChoose ==
    /\ c_pc = "s136"
    /\ LET cmd == EffectiveCommand(car_info.done, action) IN
         /\ steering_signal' = cmd[1]
         /\ motor_signal' = Attenuate(cmd[2], motor_limitation)
    /\ done_read' = car_info.done
    /\ c_pc' = "s143"
    /\ UNCHANGED <<shared, motor_limitation, hardware, action, ret_reward,
                   ret_done, ret, entry_done, calls, handler, history>>

\* lines 143-144: self._car_info['Steering signal'] = steering_signal and
\* self._car_info['Motor signal'] = motor_signal
RecordedStopping(info, steering, motor) ==
    [info EXCEPT !.steering = steering, !.motor = motor,
                 !.speed = IF info.done THEN 0 ELSE @]
Recorded(info, steering, motor) ==
    [info EXCEPT !.steering = steering, !.motor = motor]

\* lines 143-148: the commanded signals are recorded in the dict,
\* self._update_pwm(steering_signal, motor_signal) sets both pulse widths,
\* and the camera fills self._image.
StepApplyRereadingDone ==
    /\ c_pc = "s143"
    /\ LET steering == IF car_info.done THEN 0 ELSE steering_signal
           motor == IF car_info.done THEN 0 ELSE motor_signal IN
         /\ steering_signal' = steering
         /\ motor_signal' = motor
         /\ car_info' = Recorded(car_info, steering, motor)
         /\ steering_pw' = ServoPulse(steering)
         /\ motor_pw' = MotorPulse(motor)
    /\ c_pc' = "s150"
    /\ done_read' = done_read
    /\ UNCHANGED <<encoder_pulse_count, motor_limitation, cam_open, pi_open,
                   action, ret_reward, ret_done, ret, entry_done, calls,
                   handler, history>>

StepApply ==
    /\ c_pc = "s143"
    /\ car_info' = Recorded(car_info, steering_signal, motor_signal)
    /\ steering_pw' = ServoPulse(steering_signal)
    /\ motor_pw' = MotorPulse(motor_signal)
    /\ c_pc' = "s150"
    /\ done_read' = done_read
    /\ UNCHANGED <<encoder_pulse_count, motor_limitation, cam_open, pi_open,
                   action, steering_signal, motor_signal, ret_reward, ret_done,
                   ret, entry_done, calls, handler, history>>

StepReadRewardWaiting ==
    /\ c_pc = "s150"
    /\ h_pc = "idle"
    /\ ret_reward' = car_info.reward
    /\ c_pc' = "s150d"
    /\ done_read' = done_read
    /\ UNCHANGED <<shared, motor_limitation, hardware, action, steering_signal,
                   motor_signal, ret_done, ret, entry_done, calls, handler,
                   history>>

\* line 150, 2nd element of the tuple: self._car_info['Reward']
StepReadReward ==
    /\ c_pc = "s150"
    /\ ret_reward' = car_info.reward
    /\ c_pc' = "s150d"
    /\ done_read' = done_read
    /\ UNCHANGED <<shared, motor_limitation, hardware, action, steering_signal,
                   motor_signal, ret_done, ret, entry_done, calls, handler,
                   history>>

\* line 150, 3rd element of the tuple: self._car_info['Done']
StepReadDone ==
    /\ c_pc = "s150d"
    /\ ret_done' = car_info.done
    /\ c_pc' = "s150i"
    /\ done_read' = done_read
    /\ UNCHANGED <<shared, motor_limitation, hardware, action, steering_signal,
                   motor_signal, ret_reward, ret, entry_done, calls, handler,
                   history>>

\* line 150, 4th element and the return: info is the dict itself, so the
\* caller sees in it what the dict holds when step returns.
StepReturn ==
    /\ c_pc = "s150i"
    /\ ret' = [kind |-> "step", reward |-> ret_reward, done |-> ret_done,
               info |-> car_info, entry_done |-> entry_done]
    /\ c_pc' = "idle"
    /\ action' = NoAction
    /\ steering_signal' = 0
    /\ motor_signal' = 0
    /\ ret_reward' = 0
    /\ ret_done' = FALSE
    /\ entry_done' = FALSE
    /\ done_read' = FALSE
    /\ UNCHANGED <<shared, motor_limitation, hardware, calls, handler,
                   history>>

\* ------------------------------------------------- caller thread: reset

\* reset() is called and lines 104-105 run: self._update_pwm(0, 0) and the
\* camera capture.
ResetCall ==
    /\ c_pc = "idle"
    /\ calls < MaxCalls
    /\ calls' = calls + 1
    /\ entry_done' = car_info.done
    /\ ret' = NoReturn
    /\ steering_pw' = ServoPulse(0)
    /\ motor_pw' = MotorPulse(0)
    /\ c_pc' = "r107"
    /\ done_read' = done_read
    /\ UNCHANGED <<shared, motor_limitation, cam_open, pi_open, action,
                   steering_signal, motor_signal, ret_reward, ret_done,
                   handler, history>>

ResetInstallClearingCount ==
    /\ c_pc = "r107"
    /\ car_info' = ZeroInfo
    /\ encoder_pulse_count' = 0
    /\ lap_rises' = 0
    /\ lap_timeouts' = 0
    /\ c_pc' = "r114"
    /\ UNCHANGED <<motor_limitation, hardware, action, steering_signal,
                   motor_signal, ret_reward, ret_done, ret, entry_done, calls,
                   done_read, handler, enc_delivered, enc_consumed>>

\* lines 107-112: self._car_info is bound to a new zero dict.  The pulse
\* counter is not touched.
ResetInstall ==
    /\ c_pc = "r107"
    /\ car_info' = ZeroInfo
    /\ lap_rises' = 0
    /\ lap_timeouts' = 0
    /\ c_pc' = "r114"
    /\ done_read' = done_read
    /\ UNCHANGED <<encoder_pulse_count, motor_limitation, hardware, action,
                   steering_signal, motor_signal, ret_reward, ret_done, ret,
                   entry_done, calls, handler, enc_delivered, enc_consumed>>

\* line 114, 2nd element of the tuple
ResetReadReward ==
    /\ c_pc = "r114"
    /\ ret_reward' = car_info.reward
    /\ c_pc' = "r114d"
    /\ done_read' = done_read
    /\ UNCHANGED <<shared, motor_limitation, hardware, action, steering_signal,
                   motor_signal, ret_done, ret, entry_done, calls, handler,
                   history>>

\* line 114, 3rd element of the tuple
ResetReadDone ==
    /\ c_pc = "r114d"
    /\ ret_done' = car_info.done
    /\ c_pc' = "r114i"
    /\ done_read' = done_read
    /\ UNCHANGED <<shared, motor_limitation, hardware, action, steering_signal,
                   motor_signal, ret_reward, ret, entry_done, calls, handler,
                   history>>

\* line 114, 4th element and the return
ResetReturn ==
    /\ c_pc = "r114i"
    /\ ret' = [kind |-> "reset", reward |-> ret_reward, done |-> ret_done,
               info |-> car_info, entry_done |-> entry_done]
    /\ c_pc' = "idle"
    /\ ret_reward' = 0
    /\ ret_done' = FALSE
    /\ entry_done' = FALSE
    /\ done_read' = done_read
    /\ UNCHANGED <<shared, motor_limitation, hardware, action, steering_signal,
                   motor_signal, calls, handler, history>>

\* ------------------------------------------------- caller thread: close

\* close() is called and line 154 runs: self._cam.close()
CloseCamera ==
    /\ c_pc = "idle"
    /\ cam_open' = FALSE
    /\ ret' = NoReturn
    /\ c_pc' = "c155"
    /\ done_read' = done_read
    /\ UNCHANGED <<shared, motor_limitation, steering_pw, motor_pw, pi_open,
                   action, steering_signal, motor_signal, ret_reward, ret_done,
                   entry_done, calls, handler, history>>

CloseActuateSkipped ==
    /\ c_pc = "c155"
    /\ c_pc' = "c156"
    /\ UNCHANGED <<shared, motor_limitation, hardware, action, steering_signal,
                   motor_signal, ret_reward, ret_done, ret, entry_done, calls,
                   done_read, handler, history>>

\* line 155: self._update_pwm(0, 0)
CloseActuate ==
    /\ c_pc = "c155"
    /\ steering_pw' = ServoPulse(0)
    /\ motor_pw' = MotorPulse(0)
    /\ c_pc' = "c156"
    /\ done_read' = done_read
    /\ UNCHANGED <<shared, motor_limitation, cam_open, pi_open, action,
                   steering_signal, motor_signal, ret_reward, ret_done, ret,
                   entry_done, calls, handler, history>>

\* line 156: self._pi.stop(); no callback is delivered afterwards.
CloseStop ==
    /\ c_pc = "c156"
    /\ pi_open' = FALSE
    /\ c_pc' = "closed"
    /\ done_read' = done_read
    /\ UNCHANGED <<shared, motor_limitation, steering_pw, motor_pw, cam_open,
                   action, steering_signal, motor_signal, ret_reward, ret_done,
                   ret, entry_done, calls, handler, history>>

\* ------------------------------------- callback thread: _interrupt_handle

\* line 160: self._car_info['Done'] = True
DoneSetStoppingMotor(info) == [info EXCEPT !.done = TRUE, !.motor = 0]
DoneSet(info) == [info EXCEPT !.done = TRUE]

\* line 164: self._encoder_pulse_count += 1
PulseCounted(count) == count + 1

\* lines 167-169: self._car_info['Car speed'] = s / t * self._GEAR_RATIO
SpeedAccumulated(info, count) == [info EXCEPT !.speed = @ + SpeedOf(count)]
SpeedStored(info, count) == [info EXCEPT !.speed = SpeedOf(count)]

\* line 170: self._encoder_pulse_count = 0
PulseKept(count) == count
PulseCleared(count) == 0

\* line 174: self._car_info['Reward'] += 5
LapRewardedClearingDone(info) == [info EXCEPT !.reward = @ + 5, !.done = FALSE]
LapRewardedUnlessDone(info) ==
    IF info.done THEN info ELSE [info EXCEPT !.reward = @ + 5]
LapRewarded(info) == [info EXCEPT !.reward = @ + 5]

\* line 177: self._car_info['Reward'] -= 1
LapPenalised(info) == [info EXCEPT !.reward = @ - 1]

\* line 178: if self._car_info['Reward'] < 0
RewardBelowMinusOne(info) == info.reward < -1
RewardNegative(info) == info.reward < 0

\* The GPIO subsystem calls _interrupt_handle(gpio, level, tick); line 159
\* and the elif chain pick the branch.
HandlerDispatch ==
    /\ h_pc = "idle"
    /\ pi_open
    /\ events < MaxEvents
    /\ \E gpio \in GPIOS, level \in LEVELS :
         /\ h_pc' = Classify(gpio, level)
         /\ h_event' = IF h_pc' = "idle" THEN NoEvent ELSE <<gpio, level>>
    /\ events' = events + 1
    /\ UNCHANGED <<shared, motor_limitation, hardware, caller, history>>

HandlerLineSensorStopping ==
    /\ h_pc = "h160"
    /\ car_info' = DoneSet(car_info)
    /\ steering_pw' = ServoPulse(0)
    /\ motor_pw' = MotorPulse(0)
    /\ h_pc' = "idle"
    /\ h_event' = NoEvent
    /\ UNCHANGED <<encoder_pulse_count, motor_limitation, cam_open, pi_open,
                   caller, events, history>>

\* line 160 (either line sensor, whatever the level)
HandlerLineSensor ==
    /\ h_pc = "h160"
    /\ car_info' = DoneSet(car_info)
    /\ h_pc' = "idle"
    /\ h_event' = NoEvent
    /\ UNCHANGED <<encoder_pulse_count, motor_limitation, hardware, caller,
                   events, history>>

\* line 164 (encoder pin, level == RISING_EDGE)
HandlerEncoderPulse ==
    /\ h_pc = "h164"
    /\ encoder_pulse_count' = PulseCounted(encoder_pulse_count)
    /\ enc_delivered' = enc_delivered + 1
    /\ h_pc' = "idle"
    /\ h_event' = NoEvent
    /\ UNCHANGED <<car_info, motor_limitation, hardware, caller, events,
                   lap_rises, lap_timeouts, enc_consumed>>

\* lines 167-169 (encoder pin, level == TIMEOUT): the speed of the window
HandlerEncoderSpeed ==
    /\ h_pc = "h167"
    /\ car_info' = SpeedStored(car_info, encoder_pulse_count)
    /\ enc_consumed' = enc_consumed + encoder_pulse_count
    /\ h_pc' = "h170"
    /\ h_event' = h_event
    /\ UNCHANGED <<encoder_pulse_count, motor_limitation, hardware, caller,
                   events, lap_rises, lap_timeouts, enc_delivered>>

\* line 170
HandlerEncoderClear ==
    /\ h_pc = "h170"
    /\ encoder_pulse_count' = PulseCleared(encoder_pulse_count)
    /\ h_pc' = "idle"
    /\ h_event' = NoEvent
    /\ UNCHANGED <<car_info, motor_limitation, hardware, caller, events,
                   history>>

\* line 174 (zero pin, level == RISING_EDGE).  The statement loads the dict
\* once, reads and writes that same object, and reset rebinds the attribute
\* rather than writing into the dict; so the read and the write act as one
\* step on whichever dict the load found.
HandlerLapEdge ==
    /\ h_pc = "h174"
    /\ car_info' = LapRewarded(car_info)
    /\ lap_rises' = lap_rises + 1
    /\ h_pc' = "idle"
    /\ h_event' = NoEvent
    /\ UNCHANGED <<encoder_pulse_count, motor_limitation, hardware, caller,
                   events, lap_timeouts, enc_delivered, enc_consumed>>

\* line 177 (zero pin, level == TIMEOUT)
HandlerLapTimeout ==
    /\ h_pc = "h177"
    /\ car_info' = LapPenalised(car_info)
    /\ lap_timeouts' = lap_timeouts + 1
    /\ h_pc' = "h178"
    /\ h_event' = h_event
    /\ UNCHANGED <<encoder_pulse_count, motor_limitation, hardware, caller,
                   events, lap_rises, enc_delivered, enc_consumed>>

\* line 178: the dict is loaded and read again
HandlerLapCheck ==
    /\ h_pc = "h178"
    /\ h_pc' = IF RewardNegative(car_info) THEN "h179" ELSE "idle"
    /\ h_event' = IF h_pc' = "idle" THEN NoEvent ELSE h_event
    /\ UNCHANGED <<shared, motor_limitation, hardware, caller, events,
                   history>>

\* line 179: self._car_info['Done'] = True
HandlerLapDone ==
    /\ h_pc = "h179"
    /\ car_info' = DoneSet(car_info)
    /\ h_pc' = "idle"
    /\ h_event' = NoEvent
    /\ UNCHANGED <<encoder_pulse_count, motor_limitation, hardware, caller,
                   events, history>>

\* ------------------------------------------------------------------- Next

Step == StepCall \/ StepChoose \/ StepApply \/ StepReadReward
            \/ StepReadDone \/ StepReturn

Reset == ResetCall \/ ResetInstall \/ ResetReadReward \/ ResetReadDone
            \/ ResetReturn

Close == CloseCamera \/ CloseActuate \/ CloseStop

InterruptHandle ==
    HandlerDispatch \/ HandlerLineSensor \/ HandlerEncoderPulse
        \/ HandlerEncoderSpeed \/ HandlerEncoderClear \/ HandlerLapEdge
        \/ HandlerLapTimeout \/ HandlerLapCheck \/ HandlerLapDone

Next == Step \/ Reset \/ Close \/ InterruptHandle

Spec == Init /\ [][Next]_vars

\* A call that has begun keeps running: its statements are plain Python on
\* the caller's thread, and the camera and PWM calls return.  Nothing is
\* assumed of the handler's schedule.
CallRuns == (Step \/ Reset) /\ c_pc # "idle"
FairSpec == Spec /\ WF_vars(CallRuns)

\* ----------------------------------------------------------------- claims

StepBody == {"s136", "s143", "s150", "s150d", "s150i"}
StepActuated == {"s150", "s150d", "s150i"}

\* C1.  Termination latch: a step that begins while 'Done' is true chooses
\* the command (0, 0), records 0 / 0 in the dict, sets both pulse widths to
\* 1500 whatever action it was given, and returns done = true.
TerminationLatch ==
    /\ (c_pc = "s143" /\ entry_done) =>
          (steering_signal = 0 /\ motor_signal = 0)
    /\ (c_pc \in StepActuated /\ entry_done) =>
          /\ steering_pw = 1500 /\ motor_pw = 1500
          /\ car_info.steering = 0 /\ car_info.motor = 0
    /\ (ret.kind = "step" /\ ret.entry_done) =>
          /\ ret.done /\ ret.info.done
          /\ ret.info.steering = 0 /\ ret.info.motor = 0
          /\ c_pc = "idle" => (steering_pw = 1500 /\ motor_pw = 1500)

\* A second step in a row, begun after done, given a full-throttle action,
\* has actuated.
TerminationLatchWitness ==
    /\ c_pc = "s150" /\ entry_done /\ calls = 2
    /\ action = <<100, 100>>
    /\ motor_pw = 1500

\* C2.  'Done' goes from true to false only in reset's rebinding of the
\* dict (line 107); no handler statement and no statement of step does it.
DoneMonotone ==
    [][(car_info.done /\ ~car_info'.done) => (c_pc = "r107" /\ c_pc' = "r114")]_vars

\* Done was set by the handler, a step has run to its end and further
\* handler invocations have finished, and done is still true.
DoneMonotoneWitness ==
    /\ car_info.done /\ ret.kind = "step" /\ c_pc = "idle"
    /\ events = MaxEvents /\ h_pc = "idle" /\ lap_timeouts >= 1

\* C3.  reset() returns reward = 0 and done = false, with speed 0 in the
\* returned info, whatever the handler does while reset runs.
ResetReturnsZero ==
    ret.kind = "reset" =>
        /\ ret.reward = 0 /\ ~ret.done
        /\ ret.info.reward = 0 /\ ~ret.info.done /\ ret.info.speed = 0

ValidComponent(x) == -100 <= x /\ x <= 100

\* C4.  A step whose action has the wrong arity or a component outside
\* [-1, 1] fails validation: it never reaches the body of step, so it changes
\* no telemetry field and issues no actuation command.
InvalidActionRejected ==
    c_pc \in StepBody =>
        (Len(action) = 2 /\ \A i \in 1..Len(action) : ValidComponent(action[i]))

\* C5.  The reward and done a call returns are those of the returned info,
\* and a call never returns reward < 0 with done = false.
SnapshotConsistent ==
    ret.kind \in {"step", "reset"} =>
        /\ ret.reward = ret.info.reward
        /\ ret.done = ret.info.done
        /\ ~(ret.reward < 0 /\ ~ret.done)

NegativeRewardForcesDone ==
    h_pc = "idle" => (car_info.reward < 0 => car_info.done)

NegativeRewardForcesDoneWitness ==
    /\ h_pc = "idle" /\ car_info.reward < 0 /\ car_info.done
    /\ lap_timeouts >= 1

\* C8.  Since the last reset, reward = 5 * (lap-marker rising edges) -
\* (lap-marker timeouts), done or not; timeouts alone from reward 0 leave
\* done set from the first one on.
RewardAccounting ==
    /\ car_info.reward = 5 * lap_rises - lap_timeouts
    /\ (h_pc = "idle" /\ lap_rises = 0 /\ lap_timeouts >= 1) => car_info.done

\* Three timeouts from reward 0.
RewardAccountingWitness ==
    /\ h_pc = "idle" /\ lap_rises = 0 /\ lap_timeouts = 3
    /\ car_info.reward = -3 /\ car_info.done

\* C9.  An encoder timeout overwrites speed with the value of the pulses
\* counted in the window, count / 512 * pi * 0.05 / 0.5 * (145 / 35), that is
\* count * 725000 over SpeedDen; the accumulator is 0 once the invocation has
\* finished; an encoder rising edge adds exactly 1 to the accumulator.
WindowedSpeed ==
    [][/\ (h_pc = "h167" /\ h_pc' = "h170") =>
            /\ car_info'.speed = encoder_pulse_count * 725000
            /\ encoder_pulse_count' = encoder_pulse_count
       /\ (h_pc = "h170" /\ h_pc' = "idle") => encoder_pulse_count' = 0
       /\ (h_pc = "h164" /\ h_pc' = "idle") =>
            encoder_pulse_count' = encoder_pulse_count + 1]_vars

\* A window with a pulse was followed by a window without: speed is back at 0
\* (no reset has run).
WindowedSpeedWitness ==
    /\ h_pc = "idle" /\ calls = 0
    /\ enc_consumed >= 1 /\ enc_delivered = enc_consumed
    /\ car_info.speed = 0 /\ encoder_pulse_count = 0

\* C10.  The commanded signals are in [-1, 1] and the pulse widths within
\* 1500 +- SERVO_RANGE and 1500 +- MOTOR_RANGE.
SignalsInRange ==
    /\ ValidComponent(car_info.steering)
    /\ ValidComponent(car_info.motor)
    /\ 1500 - SERVO_RANGE <= steering_pw /\ steering_pw <= 1500 + SERVO_RANGE
    /\ 1500 - MOTOR_RANGE <= motor_pw /\ motor_pw <= 1500 + MOTOR_RANGE

\* Commands between full left / brake and full right / gas, in hundredths
SignalSamples == {-100, -50, 0, 50, 100}

\* C11.  The pulse widths are the affine image of the command: steering
\* 1500 + SERVO_RANGE * c and motor 1500 + MOTOR_RANGE * c for the command c a
\* step forwards (c in hundredths, so both sides are taken times 100), exact
\* at -1, 0 and 1 (1300, 1500, 1700 and 1000, 1500, 2000) and increasing in c.
AffineEncoding ==
    /\ c_pc \in StepActuated =>
          /\ 100 * steering_pw = 150000 + SERVO_RANGE * steering_signal
          /\ 100 * motor_pw = 150000 + MOTOR_RANGE * motor_signal
    /\ ServoPulse(-100) = 1300 /\ ServoPulse(0) = 1500 /\ ServoPulse(100) = 1700
    /\ MotorPulse(-100) = 1000 /\ MotorPulse(0) = 1500 /\ MotorPulse(100) = 2000
    /\ \A a, b \in SignalSamples :
          a < b => (ServoPulse(a) < ServoPulse(b) /\ MotorPulse(a) < MotorPulse(b))

\* A step has forwarded full right with an attenuated throttle.
AffineEncodingWitness ==
    /\ c_pc = "s150" /\ steering_signal = 100 /\ motor_signal = 60
    /\ steering_pw = 1700 /\ motor_pw = 1800

\* An invocation the design calls spurious: a channel with no role, a level
\* that is neither a rising edge nor a timeout on the encoder or lap-marker
\* channel, or a level that is not a rising edge on a line-sensor channel.
Spurious(event) ==
    LET gpio == event[1]
        level == event[2]
    IN  \/ gpio \notin {LEFT_LINE_SENSOR_PIN, RIGHT_LINE_SENSOR_PIN,
                        ENCODER_PUL_PIN, ENCODER_ZERO_PIN}
        \/ /\ gpio \in {ENCODER_PUL_PIN, ENCODER_ZERO_PIN}
           /\ level \notin {RISING_EDGE, TIMEOUT}
        \/ /\ gpio \in {LEFT_LINE_SENSOR_PIN, RIGHT_LINE_SENSOR_PIN}
           /\ level # RISING_EDGE

\* C12.  A spurious invocation leaves every telemetry field and the pulse
\* accumulator unchanged: no statement it runs writes any of them.
SpuriousIgnored ==
    [][(h_event # NoEvent /\ Spurious(h_event) /\ h_pc' # h_pc)
          => UNCHANGED <<car_info, encoder_pulse_count>>]_vars

\* The effect of one whole invocation, run without interruption, on the dict
\* and the accumulator.
Telemetry == [info |-> car_info, count |-> encoder_pulse_count]
LineSensorEvent(t) == [t EXCEPT !.info = DoneSet(t.info)]
EncoderEdgeEvent(t) == [t EXCEPT !.count = PulseCounted(t.count)]
EncoderTimeoutEvent(t) ==
    [info |-> SpeedStored(t.info, t.count), count |-> PulseCleared(t.count)]
LapEdgeEvent(t) == [t EXCEPT !.info = LapRewarded(t.info)]
LapTimeoutEvent(t) ==
    LET penalised == LapPenalised(t.info)
    IN  [t EXCEPT !.info = IF RewardNegative(penalised) THEN DoneSet(penalised)
                           ELSE penalised]

EventsCommute ==
    LET t == Telemetry IN
    /\ LapEdgeEvent(LineSensorEvent(t)) = LineSensorEvent(LapEdgeEvent(t))
    /\ LapTimeoutEvent(LineSensorEvent(t)) = LineSensorEvent(LapTimeoutEvent(t))
    /\ EncoderEdgeEvent(LineSensorEvent(t)) = LineSensorEvent(EncoderEdgeEvent(t))
    /\ EncoderTimeoutEvent(LineSensorEvent(t))
          = LineSensorEvent(EncoderTimeoutEvent(t))
    /\ EncoderEdgeEvent(LapEdgeEvent(t)) = LapEdgeEvent(EncoderEdgeEvent(t))
    /\ EncoderEdgeEvent(LapTimeoutEvent(t)) = LapTimeoutEvent(EncoderEdgeEvent(t))
    /\ EncoderTimeoutEvent(LapEdgeEvent(t)) = LapEdgeEvent(EncoderTimeoutEvent(t))
    /\ EncoderTimeoutEvent(LapTimeoutEvent(t))
          = LapTimeoutEvent(EncoderTimeoutEvent(t))

HandlerFrame ==
    /\ h_pc = "idle" => UNCHANGED <<car_info, encoder_pulse_count>>
    /\ h_pc \in {"h160", "h179"} =>
          /\ car_info' = [car_info EXCEPT !.done = TRUE]
          /\ UNCHANGED encoder_pulse_count
    /\ h_pc \in {"h164", "h170"} => UNCHANGED car_info
    /\ h_pc = "h167" =>
          /\ car_info' = [car_info EXCEPT !.speed = car_info'.speed]
          /\ UNCHANGED encoder_pulse_count
    /\ h_pc \in {"h174", "h177"} =>
          /\ car_info' = [car_info EXCEPT !.reward = car_info'.reward]
          /\ UNCHANGED encoder_pulse_count
    /\ h_pc = "h178" => UNCHANGED <<car_info, encoder_pulse_count>>

\* C13.  A line-sensor invocation changes only done (to true), an encoder
\* invocation only the accumulator and speed, a lap-marker invocation only
\* reward and done; none changes the commanded signals; and from every
\* reachable state two invocations on different channels give the same result
\* in either order.
ChannelsDisjoint ==
    []EventsCommute /\ [][h_pc' # h_pc => HandlerFrame]_vars

\* The three channels have all acted, with a throttle command on record: a
\* line sensor set done, an encoder edge was counted, a lap was rewarded.
ChannelsDisjointWitness ==
    /\ h_pc = "idle" /\ events = 3
    /\ car_info.done /\ car_info.reward = 5 /\ lap_rises = 1
    /\ encoder_pulse_count = 1
    /\ car_info.motor # 0

\* A statement of the caller's thread runs / a statement of step runs (a
\* step whose asserts fail begins and ends in "idle").
CallerActs == c_pc' # c_pc \/ calls' # calls
StepActs ==
    /\ CallerActs
    /\ \/ c_pc \in StepBody
       \/ c_pc' \in StepBody
       \/ (c_pc = "idle" /\ c_pc' = "idle")

DerivedFields == <<car_info.reward, car_info.speed, car_info.done,
                   encoder_pulse_count>>

\* C14.  No statement of step changes reward, speed, done or the pulse
\* accumulator; these change only in a handler statement or in reset's
\* rebinding of the dict.
StepWritesOnlySignals ==
    [][/\ StepActs => UNCHANGED DerivedFields
       /\ DerivedFields' # DerivedFields =>
            (h_pc' # h_pc \/ (c_pc = "r107" /\ c_pc' = "r114"))]_vars

\* A step has run to its end on telemetry the handler had built up: a lap
\* reward and a window's speed are in what it returned, next to its command.
StepWritesOnlySignalsWitness ==
    /\ ret.kind = "step" /\ events = 3 /\ calls = 1
    /\ ret.info.reward = 5 /\ ret.info.speed = 725000 /\ ~ret.info.done
    /\ ret.info.steering = 100 /\ ret.reward = 5
    /\ car_info = ret.info

ResetBody == {"r107", "r114", "r114d", "r114i"}

\* C15.  No statement of reset changes the pulse accumulator; it falls back
\* to 0 only in line 170 of an encoder timeout, so pulses counted before a
\* reset stay in it for the next speed computation.
ResetKeepsPulses ==
    [][/\ (CallerActs /\ (c_pc \in ResetBody \/ c_pc' \in ResetBody))
            => UNCHANGED encoder_pulse_count
       /\ encoder_pulse_count' < encoder_pulse_count
            => (h_pc = "h170" /\ h_pc' = "idle" /\ encoder_pulse_count' = 0)]_vars

\* reset has just rebound the dict in the middle of a window: the two pulses
\* counted before it are still in the accumulator.
ResetKeepsPulsesWitness ==
    /\ c_pc = "r114" /\ h_pc = "idle" /\ events = 2
    /\ encoder_pulse_count = 2 /\ enc_consumed = 0
    /\ car_info = ZeroInfo

\* C16.  A step that read 'Done' as false forwards the action's steering
\* unchanged and the action's throttle times motor_limitation (hundredths on
\* both sides), and what it records in the dict is what it forwards to
\* _update_pwm.
ThrottleAttenuated ==
    /\ (c_pc \in ({"s143"} \cup StepActuated) /\ ~done_read) =>
          /\ steering_signal = action[1]
          /\ 100 * motor_signal = action[2] * motor_limitation
    /\ c_pc \in StepActuated =>
          /\ car_info.steering = steering_signal
          /\ car_info.motor = motor_signal
          /\ steering_pw = ServoPulse(car_info.steering)
          /\ motor_pw = MotorPulse(car_info.motor)

\* Full right with full throttle under the default limitation 0.6: throttle
\* 0.6 is recorded and forwarded.
ThrottleAttenuatedWitness ==
    /\ c_pc = "s150" /\ ~done_read /\ motor_limitation = 60
    /\ action = <<100, 100>>
    /\ car_info.steering = 100 /\ car_info.motor = 60
    /\ steering_pw = 1700 /\ motor_pw = 1800

\* C17.  close releases the camera, then commands zero / zero, then
\* releases the GPIO interface: the camera is closed before the command, the
\* GPIO interface is still open when the command is issued, and once it has
\* been released both pulse widths are the zero command's (1500), so the zero
\* command was the last one.
CloseOrder ==
    /\ c_pc \notin {"c155", "c156", "closed"} => (cam_open /\ pi_open)
    /\ c_pc = "c155" => (~cam_open /\ pi_open)
    /\ c_pc = "c156" =>
          (~cam_open /\ pi_open /\ steering_pw = 1500 /\ motor_pw = 1500)
    /\ c_pc = "closed" => (~cam_open /\ ~pi_open)
    /\ ~pi_open => (steering_pw = 1500 /\ motor_pw = 1500)

\* close has finished after a step that had commanded a throttle.
CloseOrderWitness ==
    /\ c_pc = "closed" /\ ~pi_open /\ ~cam_open
    /\ car_info.motor # 0 /\ car_info.steering # 0
    /\ steering_pw = 1500 /\ motor_pw = 1500

\* C18.  A step or reset that has begun always has its next statement
\* enabled, whatever the handler is doing, and runs to its return.
CallsComplete ==
    /\ [](c_pc \in (StepBody \cup ResetBody) => ENABLED CallRuns)
    /\ (c_pc \in (StepBody \cup ResetBody)) ~> (c_pc = "idle")

\* A step was about to read the reward for its return while a handler
\* invocation was in progress, and has returned.
CallsCompleteWitness ==
    /\ ret.kind = "step" /\ c_pc = "idle"
    /\ h_pc = "h178" /\ ret.reward = -1 /\ events = 1

\* C19.  The pulse widths change only in a statement of the caller's thread
\* (reset, step, close); no handler statement changes them, so they keep the
\* last command's values when the handler sets done.
ActuationOnlyByCalls ==
    [][/\ (steering_pw' # steering_pw \/ motor_pw' # motor_pw)
            => (CallerActs /\ h_pc' = h_pc)
       /\ h_pc' # h_pc => UNCHANGED <<steering_pw, motor_pw>>]_vars

\* A step returned done = false with a throttle commanded; the handler has
\* since set done, and the throttle pulse is still on.
ActuationOnlyByCallsWitness ==
    /\ c_pc = "idle" /\ h_pc = "idle"
    /\ ret.kind = "step" /\ ~ret.done
    /\ car_info.done
    /\ motor_pw # 1500 /\ motor_pw = MotorPulse(car_info.motor)

\* C20.  The command of a step follows from the one read of done on line 136:
\* the forced (0, 0) when the read was true, the caller's action with the
\* throttle attenuated when it was false, whatever the handler does to done
\* afterwards; the pulse widths issued are those of that command.
SingleReadOfDone ==
    /\ c_pc \in ({"s143"} \cup StepActuated) =>
         /\ done_read => steering_signal = 0 /\ motor_signal = 0
         /\ ~done_read =>
              /\ steering_signal = action[1]
              /\ motor_signal = (action[2] * motor_limitation) \div 100
    /\ c_pc \in StepActuated =>
         /\ steering_pw = ServoPulse(steering_signal)
         /\ motor_pw = MotorPulse(motor_signal)

\* The step read done = false on line 136 and issued a throttle; the done it
\* is about to return, read after a termination event, is true.
SingleReadOfDoneWitness ==
    /\ c_pc = "s150i"
    /\ ~done_read /\ ret_done
    /\ motor_signal # 0 /\ motor_pw = MotorPulse(motor_signal)
    /\ motor_pw # MotorPulse(0)

\* C20 as stated: the command issued is (0, 0) exactly when the read of done
\* was true.
ZeroCommandIffDoneRead ==
    c_pc \in StepActuated =>
        ((steering_signal = 0 /\ motor_signal = 0) <=> done_read)

====
